---- MODULE Spec2Model ----
\* Key rotation, request execution and run driver of the YouTube mass scraper
\* (src/youtube_scraper.py, src/mass_scraper.py, src/config.py).
EXTENDS Integers, Sequences, FiniteSets, TLC

\* ---------------------------------------------------------------- bounds
\* Largest pool size explored (len(api_keys) ranges over 1..MaxKeys).
MaxKeys == 2
\* The pool size of the wide-pool specification (more keys than attempts).
WidePool == 4
\* The clock runs from 0 to MaxTime; one unit is half an hour.
MaxTime == 3
\* No new _make_api_request call starts once this many requests were counted.
MaxRequests == 1

\* Number of (category, city) combinations of a run.
MaxSearches == 2
\* target_count handed to mass_scrape_10k.
TargetCount == 99
\* target_count of a run that reaches its target before the combinations
\* run out.
ShortTarget == 2
\* Signals delivered to the process during one run.
MaxSignals == 2

\* Largest max_results a caller passes to search_channels.
MaxResults == 4

\* Largest number of items on one page of search results.
MaxPage == 3

\* Longest channel title and longest channel description, in characters.
MaxTitle == 1
MaxDescription == 4

\* Largest small view or subscriber count of a channel.
MaxCount == 3

\* Most files in the output directory when it is searched for a checkpoint.
MaxFiles == 3

\* ------------------------------------------------------------- constants
\* timedelta(hours=1) in clock units (youtube_scraper.py:48).
CoolDown == 2
\* max_retries (youtube_scraper.py:66).
max_retries == 3

\* SCRAPING_CONFIG['checkpoint_interval'] (config.py:24).
checkpoint_interval == 100
\* SCRAPING_CONFIG['emergency_save_interval'] (config.py:25).
emergency_save_interval == 50
\* max_per_search, the default of mass_scrape_10k (mass_scraper.py:399).
max_per_search == 50
\* SCRAPING_CONFIG['min_subscribers'] (config.py:22).
min_subscribers == 1000

\* ------------------------------------------------------------- variables
VARIABLES
  api_keys,           \* self.api_keys: the ordered pool, keys are 1..N
  current_key_index,  \* self.current_key_index, 0-based
  key_usage,          \* self.key_usage: key -> [requests, quota_exceeded, last_reset]
  now,                \* datetime.now()
  pc,                 \* position of _make_api_request: "idle", "loop", "request", "done"
  retry_count,        \* local retry_count of the running call
  api_key,            \* local api_key of the running call (0: none)
  result,             \* what the last call returned ("pending" while it runs)
  response,           \* the last HTTP response the session delivered
  sent,               \* number of session.get calls issued by the current call
  slept,              \* the time.sleep durations of the current call, in order
  marked_at,          \* per key: when its flag was last set (-1: flag clear)
  quota_left,         \* remote API: the keys whose quota is not used up
  only_quota          \* current call: every failure so far was a quota rejection

poolVars == <<api_keys, current_key_index, key_usage, now, pc, retry_count,
              api_key, result, response, sent, slept, marked_at, quota_left,
              only_quota>>

VARIABLES
  run_pc,               \* position of the process: "start", "city_loop", "batch",
                        \* "extend", "final", "finally", "returned", "exited"
  batch_pc,             \* position inside scrape_influencers_batch:
                        \* "search", "stats", "engage" ("-" outside a batch)
  is_running,           \* global is_running
  scraper_instance,     \* global scraper_instance is not None
  current_influencers,  \* global current_influencers
  all_influencers,      \* local all_influencers of mass_scrape_10k
  total_searches,       \* local total_searches
  channels,             \* summaries of the batch not yet processed
  influencers,          \* local influencers of scrape_influencers_batch
  created,              \* number of Channel Records created so far
  files,                \* the output directory
  session_closed,       \* scraper.close() has been called
  returned,             \* what mass_scrape_10k returned (-1: nothing yet)
  signals               \* number of signals delivered so far

runVars == <<run_pc, batch_pc, is_running, scraper_instance, current_influencers,
             all_influencers, total_searches, channels, influencers, created,
             files, session_closed, returned, signals>>

VARIABLES
  sc_pc,            \* position of search_channels: "idle", "loop", "returned", "raised"
  max_results,      \* its parameter max_results
  sc_channels,      \* its local channels (summaries are numbered as delivered)
  next_page_token,  \* its local next_page_token is set
  sc_calls,         \* number of _make_api_request calls it has made
  sc_pages,         \* number of pages of data it has received
  sc_failed,        \* a call of the executor returned None
  delivered         \* all items the API has put on the pages, in order

searchVars == <<sc_pc, max_results, sc_channels, next_page_token, sc_calls,
                sc_pages, sc_failed, delivered>>

VARIABLES
  title,        \* the title of a channel, a sequence of characters
  description,  \* the description of the channel
  inferred      \* what _categorize_channel returned for them ("-": not called)

textVars == <<title, description, inferred>>

VARIABLES
  statistics,       \* the statistics of the channel as the API returned them
  category,         \* the category term the channel was searched under
  channel_stats,       \* what get_channel_statistics returned for the channel
  influencer,       \* the record scrape_influencers_batch built from it
  engagement_rate   \* what calculate_engagement_rate returned for statistics

recordVars == <<statistics, category, channel_stats, influencer, engagement_rate>>

VARIABLES
  output_exists,  \* the output directory exists
  listing,        \* os.listdir of the output directory, in its order
  latest          \* what find_latest_checkpoint returned (kind "unset": not called)

checkpointVars == <<output_exists, listing, latest>>

auxVars == <<searchVars, textVars, recordVars, checkpointVars>>

vars == <<poolVars, runVars, auxVars>>

N == Len(api_keys)
Keys == 1..N

\* ------------------------------------------------------ the remote API
\* A response of session.get: the HTTP status (0: requests raised a
\* RequestException), the code of an error object embedded in the JSON
\* payload (0: no error object) and whether the error message contains
\* "quota" in any letter case.
NoResponse == [status |-> -1, error |-> 0, quota |-> FALSE]

Responses ==
  { [status |-> 200, error |-> 0,   quota |-> FALSE],
    [status |-> 200, error |-> 403, quota |-> TRUE],
    [status |-> 200, error |-> 403, quota |-> FALSE],
    [status |-> 200, error |-> 400, quota |-> TRUE],
    [status |-> 403, error |-> 403, quota |-> TRUE],
    [status |-> 403, error |-> 403, quota |-> FALSE],
    [status |-> 500, error |-> 0,   quota |-> FALSE],
    [status |-> 0,   error |-> 0,   quota |-> FALSE] }

\* The remote API's quota rejection, in either of its two shapes.
QuotaRejection(r) == r.error = 403 /\ r.quota

\* What can come back for a request that carries key k: a quota rejection
\* only when the quota of k is used up, and then nothing else but a server
\* error or a transport exception.
ResponsesFor(k) ==
  { r \in Responses :
      IF k \in quota_left THEN ~QuotaRejection(r)
      ELSE QuotaRejection(r) \/ r.status \in {0, 500} }

\* ------------------------------------------------------------ Key Pool
\* key_info of a fresh key (youtube_scraper.py:25).
FreshInfo(t) == [requests |-> 0, quota_exceeded |-> FALSE, last_reset |-> t]

NextIndex_NoWrap(idx, n) == idx + 1

NextIndex_Skip(idx, n) == (idx + 2) % n

\* Line 114 (and line 58): the cursor step.
NextIndex(idx, n) == (idx + 1) % n

LazyReset_StampsClear(info, t) ==
  IF info.quota_exceeded /\ t - info.last_reset > CoolDown
    THEN [requests |-> 0, quota_exceeded |-> FALSE, last_reset |-> t]
    ELSE [info EXCEPT !.last_reset = t]

LazyReset_KeepCount(info, t) ==
  IF info.quota_exceeded /\ t - info.last_reset > CoolDown
    THEN [requests |-> info.requests, quota_exceeded |-> FALSE, last_reset |-> t]
    ELSE info

LazyReset_LongWindow(info, t) ==
  IF info.quota_exceeded /\ t - info.last_reset > 2 * CoolDown
    THEN [requests |-> 0, quota_exceeded |-> FALSE, last_reset |-> t]
    ELSE info

LazyReset_KeepFlag(info, t) ==
  IF info.quota_exceeded /\ t - info.last_reset > CoolDown
    THEN [requests |-> 0, quota_exceeded |-> TRUE, last_reset |-> t]
    ELSE info

\* Lines 46-52: the lazy reset of the key under the cursor.
LazyReset(info, t) ==
  IF info.quota_exceeded /\ t - info.last_reset > CoolDown
    THEN [requests |-> 0, quota_exceeded |-> FALSE, last_reset |-> t]
    ELSE info

RECURSIVE ScanKeys_MovesOn(_, _, _, _, _)
ScanKeys_MovesOn(keys, usage, idx, attempts, t) ==
  IF attempts >= Len(keys)
    THEN [key |-> 0, usage |-> usage, idx |-> idx]
    ELSE LET key  == keys[idx + 1]
             info == LazyReset(usage[key], t)
             u2   == [usage EXCEPT ![key] = info]
         IN IF ~info.quota_exceeded
              THEN [key |-> key, usage |-> u2, idx |-> NextIndex(idx, Len(keys))]
              ELSE ScanKeys_MovesOn(keys, u2, NextIndex(idx, Len(keys)), attempts + 1, t)

\* The while loop of _get_next_available_key: returns the key (0 for None),
\* the usage table and the cursor it leaves behind.
RECURSIVE ScanKeys(_, _, _, _, _)
ScanKeys(keys, usage, idx, attempts, t) ==
  IF attempts >= Len(keys)
    THEN [key |-> 0, usage |-> usage, idx |-> idx]
    ELSE LET key  == keys[idx + 1]
             info == LazyReset(usage[key], t)
             u2   == [usage EXCEPT ![key] = info]
         IN IF ~info.quota_exceeded
              THEN [key |-> key, usage |-> u2, idx |-> idx]
              ELSE ScanKeys(keys, u2, NextIndex(idx, Len(keys)), attempts + 1, t)

get_next_available_key(keys, usage, idx, t) == ScanKeys(keys, usage, idx, 0, t)

\* Line 69: the loop test of _make_api_request.
LoopContinues_Inclusive(rc) == rc <= max_retries

LoopContinues(rc) == rc < max_retries

Backoff_Fixed(rc) == 2

\* Lines 106 and 111: time.sleep(2 ** retry_count), retry_count already raised.
Backoff(rc) == 2 ^ rc

\* Lines 89 and 98: the flag is set, nothing else of key_info is written.
MarkExceeded(info) == [info EXCEPT !.quota_exceeded = TRUE]

\* Line 83.
RecordUse(info) == [info EXCEPT !.requests = info.requests + 1]

\* Line 88: the classification of an embedded error message.
IsQuotaMessage(r) == r.quota

\* Line 86-88: a 200 payload that is treated as a quota error.
EmbeddedQuota(r) == r.error = 403 /\ IsQuotaMessage(r)

\* Line 96: the branch that marks the key on an HTTP 403.
Http403Marks(r) == r.status = 403

\* History: the time a flag was set, dropped when the flag is cleared.
MarkedAfter(old, new, stamps, t) ==
  [k \in DOMAIN new |->
     IF ~new[k].quota_exceeded THEN -1
     ELSE IF ~old[k].quota_exceeded THEN t ELSE stamps[k]]

TotalRequests == LET RECURSIVE Sum(_)
                     Sum(k) == IF k = 0 THEN 0 ELSE key_usage[k].requests + Sum(k - 1)
                 IN Sum(N)

\* ---------------------------------------------------------------- Init
\* No search_channels call is running.
SearchIdle ==
  /\ sc_pc = "idle"
  /\ max_results = 0
  /\ sc_channels = <<>>
  /\ next_page_token = FALSE
  /\ sc_calls = 0
  /\ sc_pages = 0
  /\ sc_failed = FALSE
  /\ delivered = <<>>

\* No channel text is at hand.
TextIdle == title = <<>> /\ description = <<>> /\ inferred = "-"

\* A count as the API or a caller hands it over: an integer (as a number or
\* as its decimal string), a missing key, or a value int() cannot parse.
Number(n) == [kind |-> "int", value |-> n]
Missing == [kind |-> "missing", value |-> 0]
Bad == [kind |-> "bad", value |-> 0]

\* A float, as an exact fraction with a positive denominator; `den = 0` marks
\* a value not computed yet.  Rounding of float arithmetic is left out.
Rat(n, d) == [num |-> n, den |-> d]
NoRate == Rat(0, 0)

NoStats == [kind |-> "none", category |-> "-", subscriberCount |-> 0, viewCount |-> 0]
NoRecord ==
  [kind |-> "none", channel_title |-> <<>>, subscriber_count |-> 0,
   view_count |-> 0, category |-> "-", engagement_rate |-> NoRate]

\* No channel is being turned into a record.
RecordIdle ==
  /\ statistics = [subscriberCount |-> Missing, viewCount |-> Missing]
  /\ category = "-"
  /\ channel_stats = NoStats
  /\ influencer = NoRecord
  /\ engagement_rate = NoRate

\* A file name <tag>_<count>_influencers.csv, its count as the characters
\* written in the name.
Name(tag, text) == [tag |-> tag, count |-> text]

\* What find_latest_checkpoint returns: None, or a file name and its count.
Unset == [kind |-> "unset", file |-> Name("-", <<>>), count |-> 0]
None == [Unset EXCEPT !.kind = "None"]
Found(name, n) == [kind |-> "found", file |-> name, count |-> n]

\* The output directory is not being searched.
CheckpointIdle == output_exists = FALSE /\ listing = <<>> /\ latest = Unset

AuxIdle == SearchIdle /\ TextIdle /\ RecordIdle /\ CheckpointIdle

\* The module globals of mass_scraper.py before a run (lines 20-22).
RunIdle ==
  /\ run_pc = "start"
  /\ batch_pc = "-"
  /\ is_running = FALSE
  /\ scraper_instance = FALSE
  /\ current_influencers = <<>>
  /\ all_influencers = <<>>
  /\ total_searches = 0
  /\ channels = <<>>
  /\ influencers = <<>>
  /\ created = 0
  /\ files = {}
  /\ session_closed = FALSE
  /\ returned = -1
  /\ signals = 0

\* YouTubeInfluencerScraper.__init__ for a pool of n keys.
PoolInit(n) ==
  /\ api_keys = [i \in 1..n |-> i]
  /\ current_key_index = 0
  /\ now = 0
  /\ key_usage = [k \in 1..Len(api_keys) |-> FreshInfo(0)]
  /\ pc = "idle"
  /\ retry_count = 0
  /\ api_key = 0
  /\ result = "none"
  /\ response = NoResponse
  /\ sent = 0
  /\ slept = <<>>
  /\ marked_at = [k \in 1..Len(api_keys) |-> -1]
  /\ quota_left \in SUBSET (1..Len(api_keys))
  /\ only_quota = TRUE

\* A scraper with a pool of 1..MaxKeys keys, no run started.
Init == (\E n \in 1..MaxKeys : PoolInit(n)) /\ RunIdle /\ AuxIdle

\* ------------------------------------------------------------- actions
\* Time passes: between calls and while a request is in flight or the call
\* sleeps (the rest of a call is computation that takes no time).
Tick ==
  /\ pc \in {"idle", "request"}
  /\ now < MaxTime
  /\ now' = now + 1
  /\ UNCHANGED <<api_keys, current_key_index, key_usage, pc, retry_count,
                 api_key, result, response, sent, slept, marked_at, quota_left,
                 only_quota>>

\* The quota of one key runs out or is replenished at the remote API
\* (between two calls; a call lasts seconds).
RemoteQuota(k) ==
  /\ pc = "idle"
  /\ quota_left' = IF k \in quota_left THEN quota_left \ {k} ELSE quota_left \cup {k}
  /\ UNCHANGED <<api_keys, current_key_index, key_usage, now, pc, retry_count,
                 api_key, result, response, sent, slept, marked_at, only_quota>>

\* A caller enters _make_api_request (lines 66-67).
StartExecute ==
  /\ pc = "idle"
  /\ TotalRequests < MaxRequests
  /\ pc' = "loop"
  /\ result' = "pending"
  /\ UNCHANGED <<api_keys, current_key_index, key_usage, now, retry_count,
                 api_key, response, sent, slept, marked_at, quota_left, only_quota>>

\* The call has returned: its locals are gone, the caller goes on.
Return ==
  /\ pc = "done"
  /\ pc' = "idle"
  /\ retry_count' = 0
  /\ api_key' = 0
  /\ result' = "none"
  /\ response' = NoResponse
  /\ sent' = 0
  /\ slept' = <<>>
  /\ only_quota' = TRUE
  /\ UNCHANGED <<api_keys, current_key_index, key_usage, now, marked_at, quota_left>>

\* Line 69 is false: lines 116-117.
GiveUp ==
  /\ pc = "loop"
  /\ ~LoopContinues(retry_count)
  /\ pc' = "done"
  /\ result' = "failed"
  /\ UNCHANGED <<api_keys, current_key_index, key_usage, now, retry_count,
                 api_key, response, sent, slept, marked_at, quota_left, only_quota>>

\* Lines 69-77: the head of an attempt, up to the session.get call.
Attempt ==
  /\ pc = "loop"
  /\ LoopContinues(retry_count)
  /\ LET a == get_next_available_key(api_keys, key_usage, current_key_index, now)
     IN /\ key_usage' = a.usage
        /\ current_key_index' = a.idx
        /\ api_key' = a.key
        /\ marked_at' = MarkedAfter(key_usage, a.usage, marked_at, now)
        /\ IF a.key = 0
             THEN /\ pc' = "done"
                  /\ result' = "exhausted"
                  /\ sent' = sent
             ELSE /\ pc' = "request"
                  /\ result' = result
                  /\ sent' = sent + 1
  /\ UNCHANGED <<api_keys, now, retry_count, response, slept, quota_left, only_quota>>

\* Lines 79-114: the response arrives and is handled, up to the next loop test.
Respond(r) ==
  /\ pc = "request"
  /\ r \in ResponsesFor(api_key)
  /\ response' = r
  /\ only_quota' = (only_quota /\ ((r.status = 200 /\ r.error = 0) \/ QuotaRejection(r)))
  /\ LET counted == IF r.status = 200
                      THEN [key_usage EXCEPT ![api_key] = RecordUse(@)]
                      ELSE key_usage
     IN
     IF r.status = 200 /\ ~EmbeddedQuota(r) THEN
          \* line 94
          /\ key_usage' = counted
          /\ pc' = "done"
          /\ result' = "data"
          /\ UNCHANGED <<current_key_index, retry_count, slept>>
     ELSE IF r.status = 200 THEN
          \* lines 89-92
          /\ key_usage' = [counted EXCEPT ![api_key] = MarkExceeded(@)]
          /\ retry_count' = retry_count + 1
          /\ pc' = "loop"
          /\ UNCHANGED <<current_key_index, result, slept>>
     ELSE IF Http403Marks(r) THEN
          \* lines 98-101
          /\ key_usage' = [key_usage EXCEPT ![api_key] = MarkExceeded(@)]
          /\ retry_count' = retry_count + 1
          /\ pc' = "loop"
          /\ UNCHANGED <<current_key_index, result, slept>>
     ELSE
          \* lines 104-106 and 109-111, then line 114
          /\ retry_count' = retry_count + 1
          /\ slept' = Append(slept, Backoff(retry_count + 1))
          /\ current_key_index' = NextIndex(current_key_index, N)
          /\ pc' = "loop"
          /\ UNCHANGED <<key_usage, result>>
  /\ marked_at' = MarkedAfter(key_usage, key_usage', marked_at, now)
  /\ UNCHANGED <<api_keys, now, api_key, sent, quota_left>>

\* reset_api_key_quotas (lines 310-315), called between requests.
ResetQuotas ==
  /\ pc = "idle"
  /\ key_usage' = [k \in Keys |-> FreshInfo(now)]
  /\ marked_at' = [k \in Keys |-> -1]
  /\ UNCHANGED <<api_keys, current_key_index, now, pc, retry_count, api_key,
                 result, response, sent, slept, quota_left, only_quota>>

Next ==
  \/ Tick /\ UNCHANGED <<runVars, auxVars>>
  \/ StartExecute /\ UNCHANGED <<runVars, auxVars>>
  \/ Return /\ UNCHANGED <<runVars, auxVars>>
  \/ GiveUp /\ UNCHANGED <<runVars, auxVars>>
  \/ Attempt /\ UNCHANGED <<runVars, auxVars>>
  \/ \E r \in Responses : Respond(r) /\ UNCHANGED <<runVars, auxVars>>
  \/ ResetQuotas /\ UNCHANGED <<runVars, auxVars>>
  \/ \E k \in Keys : RemoteQuota(k) /\ UNCHANGED <<runVars, auxVars>>

Spec == Init /\ [][Next]_vars

\* The same scraper over a pool that has more keys than a call has attempts.
InitWide == PoolInit(WidePool) /\ RunIdle /\ AuxIdle

SpecWide == InitWide /\ [][Next]_vars


\* ==================================================== the run driver
\* The kinds of Channel Summary, by what the API holds for the channel:
\* "ok" more subscribers than min_subscribers, "edge" exactly as many, "low"
\* fewer, "none" no such channel, "malformed" statistics that do not parse.
Outcomes == {"ok", "edge", "low", "none", "malformed"}

\* The subscriberCount the API reports for a channel.
SubscriberCount(summary) ==
  CASE summary = "ok" -> min_subscribers + 1
    [] summary = "edge" -> min_subscribers
    [] summary = "low" -> min_subscribers - 1
    [] OTHER -> 0

\* get_channel_statistics (lines 199-236): None without data or without
\* items, an exception of int() on statistics that do not parse, else the
\* statistics.
get_channel_statistics(summary, data) ==
  [kind |-> IF ~data \/ summary = "none" THEN "None"
            ELSE IF summary = "malformed" THEN "raise"
            ELSE "stats",
   subscriberCount |-> SubscriberCount(summary)]

Passes_Strict(stats) == stats.subscriberCount > min_subscribers

\* Lines 282-284: the filter on the subscriber count.
Passes(stats) == ~(stats.subscriberCount < min_subscribers)

OnChannelError_DropsBatch(batch) == <<>>

\* Lines 312-314: an exception while a channel is processed is logged and the
\* loop goes on with the batch as it is.
OnChannelError(batch) == batch

Full(n) == [i \in 1..n |-> "ok"]

\* The summary lists search_channels can return (at most max_per_search long).
ChannelLists ==
  { <<>>,
    <<"ok", "low", "edge">>,
    <<"ok", "malformed", "none", "edge">>,
    Full(max_per_search - 1),
    Full(max_per_search) }

\* A file of the output directory: the tag and the count make its name.
File(tag, rows) == [tag |-> tag, count |-> Len(rows), rows |-> rows]

\* The name a caller builds for a file (lines 34, 450, 456, 472 and 477):
\* its tag and the count written into it.
Filename(tag, n) == [tag |-> tag, count |-> n]

\* The file save_to_csv leaves under a name (lines 332 and 341-344).
Written(name, rows) == [tag |-> name.tag, count |-> name.count, rows |-> rows]

save_to_csv_WritesEmpty(dir, rows, name) ==
  {f \in dir : ~(f.tag = name.tag /\ f.count = name.count)} \cup {Written(name, rows)}

save_to_csv_DropsLast(dir, rows, name) ==
  IF rows = <<>> THEN dir
  ELSE {f \in dir : ~(f.tag = name.tag /\ f.count = name.count)}
         \cup {Written(name, SubSeq(rows, 1, Len(rows) - 1))}

\* save_to_csv: nothing is written for an empty list (lines 326-328); a file
\* of the same name is overwritten (line 341).
save_to_csv(dir, rows, name) ==
  IF rows = <<>> THEN dir
  ELSE {f \in dir : ~(f.tag = name.tag /\ f.count = name.count)}
         \cup {Written(name, rows)}

extend_Replaces(list, batch) == batch

\* Line 438: all_influencers.extend(batch).
extend(list, batch) == list \o batch

\* Line 449: the checkpoint test.
CheckpointDue(n) == n % checkpoint_interval = 0 /\ n > 0

\* Line 455: the emergency-save test.
EmergencySaveDue(n) == n % emergency_save_interval = 0 /\ n > 0

\* Lines 448-458: the two periodic saves after a batch.
PeriodicSaves(dir, rows) ==
  LET d1 == IF CheckpointDue(Len(rows))
              THEN save_to_csv(dir, rows, Filename("checkpoint", Len(rows)))
              ELSE dir
  IN IF EmergencySaveDue(Len(rows))
       THEN save_to_csv(d1, rows, Filename("emergency_save", Len(rows)))
       ELSE d1

\* Line 28: the condition under which the signal handler acts.
HandlerActs == is_running /\ current_influencers # <<>>

\* The try block of calculate_engagement_rate ends in a bare except
\* (lines 246-257), which also catches the SystemExit of sys.exit.
InBareExcept == run_pc = "batch" /\ batch_pc = "engage"

\* _make_api_request (lines 64-117) as one step of the run, under an API
\* that answers a request with data while the key has quota left and with an
\* HTTP 403 quota rejection otherwise: whether data came back, the usage
\* table and the cursor it leaves, and the number of requests it sent.
RECURSIVE Execute_NoneUnchecked(_, _, _, _)
Execute_NoneUnchecked(usage, idx, rc, n) ==
  IF ~LoopContinues(rc)
    THEN [data |-> FALSE, usage |-> usage, idx |-> idx, sent |-> n]
    ELSE LET a == get_next_available_key(api_keys, usage, idx, now)
         IN IF a.key = 0
              THEN Execute_NoneUnchecked(a.usage, NextIndex(a.idx, N), rc + 1, n + 1)
            ELSE IF a.key \in quota_left
              THEN [data |-> TRUE,
                    usage |-> [a.usage EXCEPT ![a.key] = RecordUse(@)],
                    idx |-> a.idx, sent |-> n + 1]
            ELSE Execute_NoneUnchecked([a.usage EXCEPT ![a.key] = MarkExceeded(@)],
                                       a.idx, rc + 1, n + 1)

RECURSIVE Execute(_, _, _, _)
Execute(usage, idx, rc, n) ==
  IF ~LoopContinues(rc)
    THEN [data |-> FALSE, usage |-> usage, idx |-> idx, sent |-> n]
    ELSE LET a == get_next_available_key(api_keys, usage, idx, now)
         IN IF a.key = 0
              THEN [data |-> FALSE, usage |-> a.usage, idx |-> a.idx, sent |-> n]
            ELSE IF a.key \in quota_left
              THEN [data |-> TRUE,
                    usage |-> [a.usage EXCEPT ![a.key] = RecordUse(@)],
                    idx |-> a.idx, sent |-> n + 1]
            ELSE Execute([a.usage EXCEPT ![a.key] = MarkExceeded(@)],
                         a.idx, rc + 1, n + 1)

\* One call of the executor by the collector (lines 147 and 189).
ApiCall == Execute(key_usage, current_key_index, 0, 0)

\* What a call of the executor leaves in the scraper.
Called(c) ==
  /\ key_usage' = c.usage
  /\ current_key_index' = c.idx
  /\ sent' = c.sent
  /\ marked_at' = MarkedAfter(key_usage, c.usage, marked_at, now)
  /\ UNCHANGED <<api_keys, now, pc, retry_count, api_key, result, response,
                 slept, quota_left, only_quota>>

TargetReached_Strict(n, target_count) == n > target_count

\* Lines 433 and 468: the target test.
TargetReached(n, target_count) == n >= target_count

\* mass_scrape_10k, lines 408-423.
StartRun ==
  /\ run_pc = "start"
  /\ run_pc' = "city_loop"
  /\ scraper_instance' = TRUE
  /\ is_running' = TRUE
  /\ all_influencers' = <<>>
  /\ current_influencers' = <<>>
  /\ total_searches' = 0
  /\ UNCHANGED <<batch_pc, channels, influencers, created, files,
                 session_closed, returned, signals>>

\* Lines 425-437: the next combination, unless the target is reached
\* (lines 433 and 468) or no combination is left.
CityLoop(target_count) ==
  /\ run_pc = "city_loop"
  /\ IF TargetReached(Len(all_influencers), target_count) \/ total_searches >= MaxSearches
       THEN /\ run_pc' = "final"
            /\ UNCHANGED <<total_searches, batch_pc>>
       ELSE /\ total_searches' = total_searches + 1
            /\ run_pc' = "batch"
            /\ batch_pc' = "search"
  /\ UNCHANGED <<is_running, scraper_instance, current_influencers,
                 all_influencers, channels, influencers, created, files,
                 session_closed, returned, signals>>

\* scrape_influencers_batch, lines 265-275: the search returns its
\* summaries, none when the executor returned no data (search_channels,
\* lines 147-152).
Search(cl) ==
  /\ run_pc = "batch" /\ batch_pc = "search"
  /\ Called(ApiCall)
  /\ channels' = IF ApiCall.data THEN cl ELSE <<>>
  /\ influencers' = <<>>
  /\ IF channels' = <<>>
       THEN run_pc' = "extend" /\ batch_pc' = "-"
       ELSE run_pc' = run_pc /\ batch_pc' = "stats"
  /\ UNCHANGED <<is_running, scraper_instance, current_influencers,
                 all_influencers, total_searches, created, files,
                 session_closed, returned, signals>>

\* Lines 276-284 and 312-314: the lookup and the filter of the next summary;
\* line 316 when no summary is left.
Stats ==
  /\ run_pc = "batch" /\ batch_pc = "stats"
  /\ IF channels = <<>>
       THEN /\ run_pc' = "extend" /\ batch_pc' = "-"
            /\ UNCHANGED <<channels, influencers>>
            /\ UNCHANGED poolVars
       ELSE /\ Called(ApiCall)
            /\ LET stats == get_channel_statistics(Head(channels), ApiCall.data)
               IN IF stats.kind = "stats" /\ Passes(stats)
                    THEN /\ batch_pc' = "engage"
                         /\ UNCHANGED <<run_pc, channels, influencers>>
                  ELSE IF stats.kind = "raise"
                    THEN /\ influencers' = OnChannelError(influencers)
                         /\ channels' = Tail(channels)
                         /\ UNCHANGED <<run_pc, batch_pc>>
                    ELSE /\ channels' = Tail(channels)
                         /\ UNCHANGED <<run_pc, batch_pc, influencers>>
  /\ UNCHANGED <<is_running, scraper_instance, current_influencers,
                 all_influencers, total_searches, created, files,
                 session_closed, returned, signals>>

\* Lines 286-310: the record is built and appended to the batch.
Engage ==
  /\ run_pc = "batch" /\ batch_pc = "engage"
  /\ created' = created + 1
  /\ influencers' = Append(influencers, created + 1)
  /\ channels' = Tail(channels)
  /\ batch_pc' = "stats"
  /\ UNCHANGED <<run_pc, is_running, scraper_instance, current_influencers,
                 all_influencers, total_searches, files, session_closed,
                 returned, signals>>

\* Lines 438-466: the batch is appended (current_influencers is the same
\* list object, line 421) and the periodic saves are made.
AfterBatch ==
  /\ run_pc = "extend"
  /\ all_influencers' = extend(all_influencers, influencers)
  /\ current_influencers' = all_influencers'
  /\ files' = PeriodicSaves(files, all_influencers')
  /\ influencers' = <<>>
  /\ run_pc' = "city_loop"
  /\ UNCHANGED <<batch_pc, is_running, scraper_instance, total_searches,
                 channels, created, session_closed, returned, signals>>

\* Lines 492-494: an exception raised by a periodic save after the batch was
\* appended (os.makedirs at line 331 is outside the try of save_to_csv) is
\* logged and the run returns 0.
LoopException ==
  /\ run_pc = "extend"
  /\ all_influencers' = extend(all_influencers, influencers)
  /\ (CheckpointDue(Len(all_influencers')) \/ EmergencySaveDue(Len(all_influencers')))
  /\ current_influencers' = all_influencers'
  /\ influencers' = <<>>
  /\ returned' = 0
  /\ run_pc' = "finally"
  /\ UNCHANGED <<batch_pc, is_running, scraper_instance, total_searches,
                 channels, created, files, session_closed, signals>>

\* Lines 471-490: the final file, the backup and the return value.
FinalSave ==
  /\ run_pc = "final"
  /\ files' = save_to_csv(save_to_csv(files, all_influencers,
                                      Filename("final", Len(all_influencers))),
                          all_influencers,
                          Filename("backup", Len(all_influencers)))
  /\ returned' = Len(all_influencers)
  /\ run_pc' = "finally"
  /\ UNCHANGED <<batch_pc, is_running, scraper_instance, current_influencers,
                 all_influencers, total_searches, channels, influencers,
                 created, session_closed, signals>>

Reset_Keeps(list) == list

\* Line 501: current_influencers = [].
Reset(list) == <<>>

\* Lines 495-502.
Finally ==
  /\ run_pc = "finally"
  /\ session_closed' = TRUE
  /\ scraper_instance' = FALSE
  /\ current_influencers' = Reset(current_influencers)
  /\ is_running' = FALSE
  /\ run_pc' = "returned"
  /\ UNCHANGED <<batch_pc, all_influencers, total_searches, channels,
                 influencers, created, files, returned, signals>>

\* signal_handler (lines 24-43) on a SIGINT or SIGTERM, and where the
\* SystemExit of line 43 ends up: swallowed by the bare except of
\* calculate_engagement_rate, or through the finally of mass_scrape_10k
\* (lines 495-502) out of the process.
Signal ==
  /\ run_pc # "exited"
  /\ signals < MaxSignals
  /\ signals' = signals + 1
  /\ IF HandlerActs
       THEN /\ files' = save_to_csv(files, current_influencers,
                                    Filename("emergency_exit", Len(current_influencers)))
            /\ session_closed' = TRUE
            /\ IF InBareExcept
                 THEN UNCHANGED <<run_pc, is_running, scraper_instance,
                                  current_influencers>>
                 ELSE /\ run_pc' = "exited"
                      /\ scraper_instance' = FALSE
                      /\ current_influencers' = Reset(current_influencers)
                      /\ is_running' = FALSE
       ELSE UNCHANGED <<files, session_closed, run_pc, is_running,
                        scraper_instance, current_influencers>>
  /\ UNCHANGED <<batch_pc, all_influencers, total_searches, channels,
                 influencers, created, returned>>

\* The key's quota runs out or is replenished during a batch, while the pool
\* still hands the key out (at any other time the executor does not see it).
RemoteQuotaInRun ==
  /\ run_pc = "batch"
  /\ ~key_usage[1].quota_exceeded
  /\ RemoteQuota(1)

\* One run of the driver with a scraper over a single key that has quota
\* left when the run starts.
InitRun == PoolInit(1) /\ quota_left = {1} /\ RunIdle /\ AuxIdle

NextRun ==
  \/ StartRun /\ UNCHANGED poolVars /\ UNCHANGED auxVars
  \/ CityLoop(TargetCount) /\ UNCHANGED poolVars /\ UNCHANGED auxVars
  \/ \E cl \in ChannelLists : Search(cl) /\ UNCHANGED auxVars
  \/ Stats /\ UNCHANGED auxVars
  \/ Engage /\ UNCHANGED poolVars /\ UNCHANGED auxVars
  \/ AfterBatch /\ UNCHANGED poolVars /\ UNCHANGED auxVars
  \/ LoopException /\ UNCHANGED poolVars /\ UNCHANGED auxVars
  \/ FinalSave /\ UNCHANGED poolVars /\ UNCHANGED auxVars
  \/ RemoteQuotaInRun /\ UNCHANGED <<runVars, auxVars>>
  \/ Finally /\ UNCHANGED poolVars /\ UNCHANGED auxVars
  \/ Signal /\ UNCHANGED poolVars /\ UNCHANGED auxVars

SpecRun == InitRun /\ [][NextRun]_vars

\* The same run with a target it reaches before the combinations run out.
NextTarget ==
  \/ StartRun /\ UNCHANGED poolVars /\ UNCHANGED auxVars
  \/ CityLoop(ShortTarget) /\ UNCHANGED poolVars /\ UNCHANGED auxVars
  \/ \E cl \in ChannelLists : Search(cl) /\ UNCHANGED auxVars
  \/ Stats /\ UNCHANGED auxVars
  \/ Engage /\ UNCHANGED poolVars /\ UNCHANGED auxVars
  \/ AfterBatch /\ UNCHANGED poolVars /\ UNCHANGED auxVars
  \/ LoopException /\ UNCHANGED poolVars /\ UNCHANGED auxVars
  \/ FinalSave /\ UNCHANGED poolVars /\ UNCHANGED auxVars
  \/ RemoteQuotaInRun /\ UNCHANGED <<runVars, auxVars>>
  \/ Finally /\ UNCHANGED poolVars /\ UNCHANGED auxVars
  \/ Signal /\ UNCHANGED poolVars /\ UNCHANGED auxVars

SpecTarget == InitRun /\ [][NextTarget]_vars

\* ----------------------------------------------------------- Collector
\* What one call of the executor for a page brings back: no data, or a page
\* with a number of items, with or without a continuation token; broken is
\* the position of the first item that has no 'snippet' (0: none has).
PageResults ==
  {[data |-> FALSE, size |-> 0, token |-> FALSE, broken |-> 0]}
    \cup {[data |-> TRUE, size |-> n, token |-> t, broken |-> b] :
            n \in 0..MaxPage, t \in BOOLEAN, b \in 0..MaxPage}

\* The items of a page: the API numbers on from what it delivered before.
Items(p) == [i \in 1..p.size |-> Len(delivered) + i]

Min(a, b) == IF a < b THEN a ELSE b

AppendUpTo_NoLimit(chs, items, limit) == chs \o items

\* Lines 158-169: the items are appended while there is room.
AppendUpTo(chs, items, limit) ==
  chs \o SubSeq(items, 1, Min(Len(items), limit - Len(chs)))

StopsAfter_EmptyPageGoesOn(p) == ~p.data \/ ~p.token

StopsAfter_RetriesFailure(p) == p.data /\ (p.size = 0 \/ ~p.token)

\* Lines 151-152, 155-156 and 172-173: the three breaks of the loop.
StopsAfter(p) == ~p.data \/ p.size = 0 \/ ~p.token

\* Line 163 raises KeyError on a broken item that is reached with room left.
Raises(p, chs, limit) ==
  /\ p.data
  /\ p.broken \in 1..p.size
  /\ Len(chs) + (p.broken - 1) < limit

\* A caller enters search_channels (lines 131-144).
StartSearch(m) ==
  /\ sc_pc = "idle"
  /\ sc_pc' = "loop"
  /\ max_results' = m
  /\ UNCHANGED <<sc_channels, next_page_token, sc_calls, sc_pages, sc_failed,
                 delivered>>

\* Line 146 is false: lines 178-179.
LoopExit ==
  /\ sc_pc = "loop"
  /\ ~(Len(sc_channels) < max_results)
  /\ sc_pc' = "returned"
  /\ UNCHANGED <<max_results, sc_channels, next_page_token, sc_calls, sc_pages,
                 sc_failed, delivered>>

\* Lines 146-176: one iteration of the loop.
Page(p) ==
  /\ sc_pc = "loop"
  /\ Len(sc_channels) < max_results
  /\ sc_calls' = sc_calls + 1
  /\ sc_failed' = ~p.data
  /\ sc_pages' = IF p.data THEN sc_pages + 1 ELSE sc_pages
  /\ delivered' = delivered \o Items(p)
  /\ IF Raises(p, sc_channels, max_results)
       THEN /\ sc_pc' = "raised"
            /\ sc_channels' = AppendUpTo(sc_channels,
                                         SubSeq(Items(p), 1, p.broken - 1),
                                         max_results)
            /\ UNCHANGED next_page_token
       ELSE /\ sc_channels' = AppendUpTo(sc_channels, Items(p), max_results)
            /\ next_page_token' = IF p.data /\ p.size > 0 THEN p.token
                                  ELSE next_page_token
            /\ sc_pc' = IF StopsAfter(p) THEN "returned" ELSE "loop"
  /\ UNCHANGED max_results

\* One search_channels call with any max_results and any pages.
InitSearch == PoolInit(1) /\ quota_left = {1} /\ RunIdle /\ AuxIdle

NextSearch ==
  \/ \E m \in 0..MaxResults : StartSearch(m) /\ UNCHANGED <<poolVars, runVars, textVars, recordVars, checkpointVars>>
  \/ LoopExit /\ UNCHANGED <<poolVars, runVars, textVars, recordVars, checkpointVars>>
  \/ \E p \in PageResults : Page(p) /\ UNCHANGED <<poolVars, runVars, textVars, recordVars, checkpointVars>>

SpecSearch == InitSearch /\ [][NextSearch]_vars

\* ------------------------------------------------------- Categorization
\* The characters of channel texts: texts are written over a few letters, in
\* lower and in upper case.
Alphabet == {"h", "a", "i", "r", "t", "A"}

Texts(n) == UNION {[1..k -> Alphabet] : k \in 0..n}

Lower_AsIs(text) == text

\* str.lower() (line 264).
Lower(text) == [i \in 1..Len(text) |-> IF text[i] = "A" THEN "a" ELSE text[i]]

\* The table of lines 266-283 in its order, each category with those of its
\* keywords that can be written over the Alphabet (any other keyword holds a
\* character that no text over the Alphabet contains).
categories ==
  << [name |-> "Beauty & Cosmetics", keywords |-> {<<"h", "a", "i", "r">>}],
     [name |-> "Technology & Gadgets", keywords |-> {<<"a", "i">>}],
     [name |-> "Gaming & Esports", keywords |-> {}],
     [name |-> "Fitness & Health", keywords |-> {}],
     [name |-> "Food & Cooking", keywords |-> {}],
     [name |-> "Travel & Lifestyle", keywords |-> {}],
     [name |-> "Education & Learning", keywords |-> {}],
     [name |-> "Business & Finance", keywords |-> {}],
     [name |-> "Music & Arts", keywords |-> {<<"a", "r", "t">>}],
     [name |-> "Sports & Athletics", keywords |-> {}],
     [name |-> "Automotive & Cars", keywords |-> {}],
     [name |-> "Parenting & Family", keywords |-> {}],
     [name |-> "Science & Technology", keywords |-> {}],
     [name |-> "Entertainment & Comedy", keywords |-> {}],
     [name |-> "DIY & Crafts", keywords |-> {}],
     [name |-> "Reviews & Testing", keywords |-> {}] >>

\* Python's `keyword in text` on strings.
Occurs(keyword, text) ==
  \E i \in 1..(Len(text) - Len(keyword) + 1) :
    SubSeq(text, i, i + Len(keyword) - 1) = keyword

\* Lines 285-289: the first category of the table with a keyword in the text.
RECURSIVE FirstMatch(_, _)
FirstMatch(table, text) ==
  IF table = <<>> THEN "Other"
  ELSE IF \E keyword \in Head(table).keywords : Occurs(keyword, text)
    THEN Head(table).name
    ELSE FirstMatch(Tail(table), text)

\* _categorize_channel (lines 262-289).
categorize_channel(desc, ttl) ==
  FirstMatch(categories, Lower(ttl \o <<" ">> \o desc))

\* A call of _categorize_channel on the channel text at hand.
Categorize ==
  /\ inferred' = categorize_channel(description, title)
  /\ UNCHANGED <<title, description>>

\* Any channel text, categorized any number of times.
InitText ==
  /\ PoolInit(1) /\ quota_left = {1} /\ RunIdle /\ SearchIdle /\ RecordIdle /\ CheckpointIdle
  /\ title \in Texts(MaxTitle)
  /\ description \in Texts(MaxDescription)
  /\ inferred = "-"

NextText ==
  Categorize /\ UNCHANGED <<poolVars, runVars, searchVars, recordVars, checkpointVars>>

SpecText == InitText /\ [][NextText]_vars

\* ---------------------------------------------------------------- Records
Counts == (0..MaxCount) \cup {min_subscribers, min_subscribers + 1}

Raws == {Number(n) : n \in Counts} \cup {Missing, Bad}

\* int(d.get(key, 0)) where it does not raise.
IntOf(raw) == IF raw.kind = "int" THEN raw.value ELSE 0

Leq(a, b) == a.num * b.den <= b.num * a.den

\* Python's max and min of two floats: the first argument on a tie.
max(a, b) == IF Leq(b, a) THEN a ELSE b
min(a, b) == IF Leq(a, b) THEN a ELSE b

\* calculate_engagement_rate (mass_scraper.py, lines 244-257): int() of a
\* malformed count raises inside the try, and the bare except returns 5.0.
calculate_engagement_rate(st) ==
  IF st.subscriberCount.kind = "bad" \/ st.viewCount.kind = "bad"
    THEN Rat(5, 1)
    ELSE LET subscriber_count == IntOf(st.subscriberCount)
             view_count == IntOf(st.viewCount)
         IN IF subscriber_count = 0
              THEN Rat(0, 1)
              ELSE min(max(Rat(view_count * 100, subscriber_count), Rat(1, 10)),
                       Rat(15, 1))

\* Some of the terms channels are searched under (lines 77-122) and the
\* categories get_category_mapping gives them (lines 192-220).
SearchTerms == {"beauty", "fashion", "tech", "ai", "art"}

get_category_mapping ==
  [term \in SearchTerms |->
     CASE term = "beauty" -> "Beauty & Cosmetics"
       [] term = "fashion" -> "Fashion & Style"
       [] term = "tech" -> "Technology & Gadgets"
       [] term = "ai" -> "Technology & Gadgets"
       [] term = "art" -> "Music & Arts"]

\* get_category_mapping().get(category, 'Other') (line 297).
CategoryOf(term) ==
  IF term \in DOMAIN get_category_mapping THEN get_category_mapping[term] ELSE "Other"

\* The titles and descriptions of the channels looked up.
SampleTitles == {<<>>, <<"A">>}
SampleDescriptions ==
  {<<>>, <<"a", "r", "t">>, <<"h", "a", "i", "r">>, <<"t", "A", "i">>}

\* get_channel_statistics on the item of the channel (youtube_scraper.py,
\* lines 203-236): the category is inferred from the text, the counts are
\* converted, and int() of a malformed count raises.
LookupChannel ==
  /\ category # "-" /\ channel_stats.kind = "none"
  /\ channel_stats' =
       IF statistics.subscriberCount.kind = "bad" \/ statistics.viewCount.kind = "bad"
         THEN [NoStats EXCEPT !.kind = "raise"]
         ELSE [kind |-> "stats",
               category |-> categorize_channel(description, title),
               subscriberCount |-> IntOf(statistics.subscriberCount),
               viewCount |-> IntOf(statistics.viewCount)]
  /\ UNCHANGED <<statistics, category, influencer, engagement_rate>>

\* Lines 282-306 of scrape_influencers_batch: the record of a channel at or
\* above the threshold.
BuildRecord ==
  /\ channel_stats.kind = "stats" /\ influencer.kind = "none"
  /\ ~(channel_stats.subscriberCount < min_subscribers)
  /\ influencer' =
       [kind |-> "record",
        channel_title |-> title,
        subscriber_count |-> channel_stats.subscriberCount,
        view_count |-> channel_stats.viewCount,
        category |-> CategoryOf(category),
        engagement_rate |->
          calculate_engagement_rate([subscriberCount |-> Number(channel_stats.subscriberCount),
                                     viewCount |-> Number(channel_stats.viewCount)])]
  /\ UNCHANGED <<statistics, category, channel_stats, engagement_rate>>

\* Lines 283-284 and 312-314: a channel below the threshold, or one whose
\* lookup raised, gives no record.
SkipChannel ==
  /\ influencer.kind = "none"
  /\ \/ channel_stats.kind = "raise"
     \/ channel_stats.kind = "stats" /\ channel_stats.subscriberCount < min_subscribers
  /\ influencer' = [NoRecord EXCEPT !.kind = "skipped"]
  /\ UNCHANGED <<statistics, category, channel_stats, engagement_rate>>

\* A call of calculate_engagement_rate on the statistics as they came.
EngagementRate ==
  /\ category # "-" /\ engagement_rate = NoRate
  /\ engagement_rate' = calculate_engagement_rate(statistics)
  /\ UNCHANGED <<statistics, category, channel_stats, influencer>>

\* Any channel found under any search term.
InitRecord ==
  /\ PoolInit(1) /\ quota_left = {1} /\ RunIdle /\ SearchIdle /\ CheckpointIdle
  /\ title \in SampleTitles
  /\ description \in SampleDescriptions
  /\ inferred = "-"
  /\ statistics \in [subscriberCount : Raws, viewCount : Raws]
  /\ category \in SearchTerms
  /\ channel_stats = NoStats
  /\ influencer = NoRecord
  /\ engagement_rate = NoRate

NextRecord ==
  \/ LookupChannel /\ UNCHANGED <<poolVars, runVars, searchVars, textVars, checkpointVars>>
  \/ BuildRecord /\ UNCHANGED <<poolVars, runVars, searchVars, textVars, checkpointVars>>
  \/ SkipChannel /\ UNCHANGED <<poolVars, runVars, searchVars, textVars, checkpointVars>>
  \/ EngagementRate /\ UNCHANGED <<poolVars, runVars, searchVars, textVars, checkpointVars>>

SpecRecord == InitRecord /\ [][NextRecord]_vars

\* ------------------------------------------------------------ Checkpoints
Digits == {"0", "1", "5", "9"}

DigitValue(ch) == CASE ch = "0" -> 0 [] ch = "1" -> 1 [] ch = "5" -> 5 [] ch = "9" -> 9

\* The order of characters in a string comparison: the digits, then "_",
\* then the letters.
Ord(ch) == IF ch \in Digits THEN DigitValue(ch) ELSE IF ch = "_" THEN 10 ELSE 11

\* int(text) raises ValueError (line 364).
Raises_ValueError(text) == text = <<>> \/ \E i \in 1..Len(text) : text[i] \notin Digits

\* int(text) of a decimal text.
RECURSIVE int(_)
int(text) ==
  IF text = <<>> THEN 0
  ELSE 10 * int(SubSeq(text, 1, Len(text) - 1)) + DigitValue(text[Len(text)])

\* One string is below another in string order.
RECURSIVE StringLess(_, _)
StringLess(a, b) ==
  IF b = <<>> THEN FALSE
  ELSE IF a = <<>> THEN TRUE
  ELSE IF Head(a) # Head(b) THEN Ord(Head(a)) < Ord(Head(b))
  ELSE StringLess(Tail(a), Tail(b))

\* The order `max` of line 373 would use if it compared the file names.
Above_ByName(a, b) == StringLess(b.count \o <<"_">>, a.count \o <<"_">>)

\* The order `max` of line 373 uses: key=lambda x: x[0], the parsed count.
Above(a, b) == int(a.count) > int(b.count)

\* Line 359: the name starts with checkpoint_ and ends with _influencers.csv.
IsCheckpoint(name) == name.tag = "checkpoint"

\* Lines 357-367: the checkpoint files whose count parses, in listing order.
checkpoint_files(names) ==
  SelectSeq(names, LAMBDA name : IsCheckpoint(name) /\ ~Raises_ValueError(name.count))

\* Python's max over a non-empty list: the first of the largest.
RECURSIVE MaxOf(_, _)
MaxOf(best, rest) ==
  IF rest = <<>> THEN best
  ELSE MaxOf(IF Above(Head(rest), best) THEN Head(rest) ELSE best, Tail(rest))

\* find_latest_checkpoint (lines 351-374).
find_latest_checkpoint ==
  IF ~output_exists THEN None
  ELSE LET found == checkpoint_files(listing)
       IN IF found = <<>> THEN None
          ELSE LET file == MaxOf(Head(found), Tail(found))
               IN Found(file, int(file.count))

\* A call of find_latest_checkpoint (line 511).
FindLatest ==
  /\ latest' = find_latest_checkpoint
  /\ UNCHANGED <<output_exists, listing>>

\* The counts in the names of the files of the output directory: counts as
\* the program writes them, and texts that are not a count.
CountTexts ==
  { <<"9">>, <<"5", "0">>, <<"1", "0", "0">>, <<"1", "0", "0", "0">>, <<"x">>, <<>> }

Names == {Name(tag, text) : tag \in {"checkpoint", "emergency_save"}, text \in CountTexts}

\* Listings of up to n files, no name twice.
Listings(n) ==
  {l \in UNION {[1..k -> Names] : k \in 0..n} :
     \A i, j \in 1..Len(l) : l[i] = l[j] => i = j}

\* Any output directory, or none.
InitCheckpoint ==
  /\ PoolInit(1) /\ quota_left = {1} /\ RunIdle /\ SearchIdle /\ TextIdle /\ RecordIdle
  /\ output_exists \in BOOLEAN
  /\ listing \in (IF output_exists THEN Listings(MaxFiles) ELSE {<<>>})
  /\ latest = Unset

NextCheckpoint ==
  FindLatest /\ UNCHANGED <<poolVars, runVars, searchVars, textVars, recordVars>>

SpecCheckpoint == InitCheckpoint /\ [][NextCheckpoint]_vars

\* ---------------------------------------------------------------- claims
Exceeded(k) == key_usage[k].quota_exceeded

NewlyMarked(k) == ~key_usage[k].quota_exceeded /\ key_usage'[k].quota_exceeded

Acquired == get_next_available_key(api_keys, key_usage, current_key_index, now)

\* C1: whenever a request marks a credential quota-exceeded, its last-reset
\* timestamp is set to the time of the mark, and acquire hands a marked
\* credential out again only after the whole cool-down has passed since the mark.
C1_MarkStampsNow ==
  [][ /\ \A k \in Keys : NewlyMarked(k) => key_usage'[k].last_reset = now
      /\ (pc = "loop" /\ pc' = "request" /\ Exceeded(api_key'))
            => now - marked_at[api_key'] > CoolDown ]_vars

\* C2: when every credential of the pool is marked and less than the cool-down
\* has passed since each of the marks, acquire returns none.
C2_AllMarkedGivesNone ==
  (\A k \in Keys : Exceeded(k) /\ now - marked_at[k] < CoolDown) => Acquired.key = 0

\* C5: every request attempt, whatever its outcome, moves the cursor forward
\* by exactly one position modulo the pool size.
C5_AdvanceAfterEveryAttempt ==
  [][ (pc = "request" /\ pc' # "request")
        => current_key_index' = (current_key_index + 1) % N ]_vars

\* C6: a call in which the only failures were quota rejections, while the
\* remote API still accepts a credential the pool holds available, returns
\* a response.
C6_QuotaNeverSurfaced ==
  (pc = "done" /\ only_quota /\ \E k \in quota_left : ~Exceeded(k)) => result = "data"

\* C7: a credential is marked only on a response that is a quota rejection
\* (error 403 whose message contains "quota"); an HTTP 403 with another
\* message never sets the flag.
C7_MarkOnlyOnQuota ==
  [][ \A k \in Keys : NewlyMarked(k) => QuotaRejection(response') ]_vars

\* C8: with a single credential that was marked less than a cool-down ago, the
\* first attempt of the next call ends the call as pool-exhausted and sends
\* no request.
C8_SoleKeyExhausted ==
  [][ (N = 1 /\ pc = "loop" /\ retry_count = 0 /\ Exceeded(1)
         /\ now - marked_at[1] < CoolDown /\ pc' # "loop")
        => (pc' = "done" /\ result' = "exhausted" /\ sent' = 0) ]_vars

\* C9: an attempt whose acquire returns none ends the call at once: nothing is
\* sent, nothing is slept, and no counter, flag, timestamp or retry count
\* changes in that attempt.
C9_NoneFailsImmediately ==
  [][ (pc = "loop" /\ LoopContinues(retry_count) /\ Acquired.key = 0 /\ pc' # "loop")
        => /\ pc' = "done" /\ result' = "exhausted"
           /\ sent' = sent /\ slept' = slept
           /\ key_usage' = key_usage /\ retry_count' = retry_count ]_vars

C9_Witness == pc = "done" /\ result = "exhausted" /\ sent >= 1

\* C10: a call sends at most 3 requests; every request that did not return
\* data has consumed one attempt, and a call that fails for lack of attempts
\* has sent exactly 3.
C10_AtMostThreeAttempts ==
  /\ sent <= 3
  /\ pc = "request" => sent = retry_count + 1
  /\ (pc \in {"loop", "done"} /\ result # "data") => sent = retry_count
  /\ (pc = "done" /\ result = "data") => sent = retry_count + 1
  /\ (pc = "done" /\ result = "failed") => sent = 3

C10_Witness == pc = "done" /\ result = "failed" /\ sent = 3 /\ Len(slept) = 1

\* The key j positions after the cursor, in round-robin order.
KeyAt(j) == api_keys[((current_key_index + j) % N) + 1]

\* A flag the cool-down test of line 48 leaves set at the current time.
StillExceeded(k) == Exceeded(k) /\ ~(now - key_usage[k].last_reset > CoolDown)

\* An attempt runs _get_next_available_key (a step from line 69 to 72 or 77).
AcquireStep == pc = "loop" /\ LoopContinues(retry_count) /\ pc' # "loop"

\* The number of positions the cursor moved in a step.
Moved == (current_key_index' - current_key_index + N) % N

\* C11: acquire returns the first credential, in round-robin order from the
\* cursor, whose flag is clear after the lazy reset: the cursor then indexes
\* the returned credential, every credential passed over is still exceeded,
\* and none is returned only when all are still exceeded.
C11_FirstClearInOrder ==
  [][ AcquireStep =>
        IF api_key' # 0
          THEN /\ api_keys[current_key_index' + 1] = api_key'
               /\ ~key_usage'[api_key'].quota_exceeded
               /\ ~StillExceeded(api_key')
               /\ \A j \in 0..(Moved - 1) : StillExceeded(KeyAt(j))
          ELSE \A k \in Keys : StillExceeded(k) ]_vars

C11_Witness ==
  /\ pc = "request" /\ N = 2 /\ retry_count = 1 /\ slept = <<>>
  /\ api_key = 2 /\ current_key_index = 1 /\ Exceeded(1) /\ now <= CoolDown

\* C12: when a credential was marked more than a cool-down ago and the scan
\* of an acquire reaches it, the acquire clears its flag, zeroes its counter,
\* stamps its last reset with the current time and returns it.
C12_ResetAfterCoolDown ==
  [][ AcquireStep =>
        \A j \in 0..(N - 1) :
          ( /\ Exceeded(KeyAt(j))
            /\ now - marked_at[KeyAt(j)] > CoolDown
            /\ \A i \in 0..(j - 1) : StillExceeded(KeyAt(i)) )
          => /\ ~key_usage'[KeyAt(j)].quota_exceeded
             /\ key_usage'[KeyAt(j)].requests = 0
             /\ key_usage'[KeyAt(j)].last_reset = now
             /\ api_key' = KeyAt(j)
             /\ pc' = "request" ]_vars

C12_Witness ==
  /\ pc = "request" /\ N = 2 /\ sent = 3 /\ api_key = 1 /\ response.status = 500
  /\ ~Exceeded(2) /\ key_usage[2].last_reset = 0
  /\ key_usage[1].last_reset = now /\ key_usage[1].requests = 0 /\ now > CoolDown

\* C13 (as stated): in every state a set flag means the cool-down since the
\* mark has not yet passed, for every credential of the pool.
C13_FlagOnlyDuringCoolDown ==
  \A k \in Keys : Exceeded(k) => now - marked_at[k] <= CoolDown

\* C13 (amended): flags are cleared lazily. Only an acquire or
\* reset_api_key_quotas clears a flag, and right after an acquire every
\* credential its scan visited that is still flagged has at most a cool-down
\* since its last reset; the flag of a credential the scan did not visit
\* stays set, whatever time has passed.
C13_LazyFlag ==
  [][ /\ AcquireStep =>
           \A j \in 0..(IF api_key' = 0 THEN N - 1 ELSE Moved) :
             key_usage'[KeyAt(j)].quota_exceeded
               => now - key_usage'[KeyAt(j)].last_reset <= CoolDown
      /\ \A k \in Keys :
           (Exceeded(k) /\ ~key_usage'[k].quota_exceeded)
             => (AcquireStep \/ (pc = "idle" /\ pc' = "idle")) ]_vars

C13_Witness ==
  /\ pc = "request" /\ N = 2 /\ api_key = 1 /\ current_key_index = 0
  /\ Exceeded(2) /\ now - key_usage[2].last_reset > CoolDown

\* C14: a credential's counter grows by one exactly when a call returns a
\* response obtained with it, is left alone by every attempt that ends in a
\* quota rejection or another failure, and otherwise changes only by a reset
\* to zero; it is never negative.
C14_CountsOnlySuccess ==
  [][ \A k \in Keys :
        /\ key_usage'[k].requests >= 0
        /\ IF pc = "request" /\ pc' = "done" /\ result' = "data" /\ k = api_key
             THEN key_usage'[k].requests = key_usage[k].requests + 1
             ELSE \/ key_usage'[k].requests = key_usage[k].requests
                  \/ (key_usage'[k].requests = 0 /\ key_usage'[k].last_reset = now) ]_vars

\* C15: the cursor is a valid position of the pool in every state, whatever
\* acquires, requests with any outcome and resets have happened.
C15_CursorInRange == current_key_index >= 0 /\ current_key_index < N

C15_Witness ==
  /\ N = 2 /\ pc = "loop" /\ Len(slept) = 2 /\ current_key_index = 0
  /\ \A k \in Keys : ~Exceeded(k)

\* The cursor after a number of advances.
RECURSIVE Advanced(_, _, _)
Advanced(idx, n, times) ==
  IF times = 0 THEN idx ELSE Advanced(NextIndex(idx, n), n, times - 1)

\* C16: from any cursor position of the pool, N advances pass over N
\* different positions (every credential once) and end on the position they
\* started from.
C16_AdvancesCycle ==
  \A start \in 0..(N - 1) :
    /\ Advanced(start, N, N) = start
    /\ {Advanced(start, N, j) : j \in 0..(N - 1)} = 0..(N - 1)

C16_Witness ==
  /\ N = 2 /\ pc = "loop" /\ Len(slept) = 2 /\ current_key_index = 1
  /\ retry_count = 2

\* C3: a signal received while a run is active ends the process, whatever
\* has been accumulated, and no search is started after a signal.
C3_SignalAlwaysInterrupts ==
  [][ /\ (signals' = signals + 1 /\ is_running) => run_pc' = "exited"
      /\ (signals > 0 /\ is_running) => total_searches' = total_searches ]_vars

\* C4: whenever a batch takes the accumulated count to or past a multiple of
\* a save interval, the whole accumulated list is saved under that
\* interval's tag.
C4_SaveOnEveryCrossing ==
  [][ (run_pc = "extend" /\ run_pc' = "city_loop") =>
        /\ (Len(all_influencers') \div checkpoint_interval
               > Len(all_influencers) \div checkpoint_interval)
             => File("checkpoint", all_influencers') \in files'
        /\ (Len(all_influencers') \div emergency_save_interval
               > Len(all_influencers) \div emergency_save_interval)
             => File("emergency_save", all_influencers') \in files' ]_vars

\* The files of the output directory that carry a tag.
Tagged(dir, tag) == {f \in dir : f.tag = tag}

\* A step of the driver from the final save to the finally clause.
Completes == run_pc = "final" /\ run_pc' = "finally"

\* C17: a signal received while records are accumulated leaves exactly one
\* emergency-exit file, holding all accumulated records under their count,
\* closes the session and ends the process.
C17_InterruptSavesAndExits ==
  [][ (signals' = signals + 1 /\ is_running /\ current_influencers # <<>>) =>
        /\ File("emergency_exit", current_influencers) \in files'
        /\ Cardinality(Tagged(files', "emergency_exit")) = 1
        /\ session_closed'
        /\ run_pc' = "exited" ]_vars

C19_PersistsBeforeReturn ==
  (run_pc \in {"finally", "returned"} /\ all_influencers # <<>>)
    => (File("final", all_influencers) \in files /\ returned = Len(all_influencers))

Tags == {"checkpoint", "emergency_save", "emergency_exit", "final", "backup"}

\* C21: every file a step of the run writes holds the whole accumulated list
\* as it is at the write, in its order, under a name whose count is the
\* number of records in the file.
C21_SnapshotsAreFull ==
  [][ \A f \in files' \ files :
        /\ f.tag \in Tags
        /\ f.rows = all_influencers'
        /\ f.count = Len(f.rows) ]_vars

C21_Witness ==
  /\ run_pc = "finally"
  /\ \A tag \in Tags : Tagged(files, tag) # {}

\* C22: search_channels never holds, and so never returns, more than
\* max_results summaries, and what it holds are the first items the pages
\* delivered, in the order they were delivered.
C22_AtMostMaxResults ==
  /\ Len(sc_channels) <= max_results
  /\ sc_channels = SubSeq(delivered, 1, Len(sc_channels))

C22_Witness ==
  /\ sc_pc = "returned" /\ max_results = 3 /\ Len(sc_channels) = 3
  /\ Len(delivered) = 4 /\ sc_pages = 2

\* C23: a page on which the executor returns no data ends the call with the
\* summaries of the earlier pages unchanged, and the call makes one executor
\* call per page of data plus one for the page that failed, never more.
C23_FailedPageStops ==
  [][ /\ (sc_calls' = sc_calls + 1 /\ sc_failed')
          => (sc_pc' = "returned" /\ sc_channels' = sc_channels)
      /\ sc_calls' = sc_pages' + (IF sc_failed' THEN 1 ELSE 0)
      /\ sc_failed => sc_calls' = sc_calls ]_vars

C23_Witness ==
  /\ sc_pc = "returned" /\ sc_failed /\ sc_pages = 1 /\ sc_calls = 2
  /\ Len(sc_channels) = 2 /\ max_results = 3

\* A summary whose lookup returns statistics with at least min_subscribers.
Qualifies(summary, data) ==
  /\ data
  /\ summary \notin {"none", "malformed"}
  /\ SubscriberCount(summary) >= min_subscribers

\* A step of a batch that is done with the summary at the head of the list.
Consumes == run_pc = "batch" /\ channels # <<>> /\ Len(channels') = Len(channels) - 1

\* C24: a batch takes its summaries in search order and appends one record
\* for a summary exactly when its lookup returned statistics with at least
\* min_subscribers; every other summary leaves the batch as it is.
C24_BatchIsFilteredSearch ==
  [][ /\ (Consumes /\ batch_pc = "stats")
          => /\ ~Qualifies(Head(channels), ApiCall.data)
             /\ influencers' = influencers
             /\ channels' = Tail(channels)
      /\ (batch_pc = "stats" /\ batch_pc' = "engage")
          => Qualifies(Head(channels), ApiCall.data)
      /\ (Consumes /\ batch_pc = "engage")
          => /\ influencers' = Append(influencers, created')
             /\ channels' = Tail(channels)
      /\ (run_pc = "batch" /\ ~Consumes) => influencers' = influencers ]_vars

C24_Witness ==
  /\ run_pc = "extend" /\ total_searches = 1 /\ Len(influencers) = 2
  /\ key_usage[1].requests = 4 /\ ~Exceeded(1)

\* C25: statistics that do not parse make the batch skip that one channel: the
\* records the batch already holds are kept and the batch goes on with the
\* next summary.
C25_MalformedSkipsOne ==
  [][ (run_pc = "batch" /\ batch_pc = "stats" /\ channels # <<>>
         /\ Head(channels) = "malformed" /\ ApiCall.data /\ signals' = signals
         /\ quota_left' = quota_left)
        => /\ channels' = Tail(channels)
           /\ influencers' = influencers
           /\ run_pc' = "batch" /\ batch_pc' = "stats" ]_vars

C25_Witness ==
  /\ run_pc = "extend" /\ total_searches = 1 /\ Len(influencers) = 2
  /\ key_usage[1].requests = 5 /\ ~Exceeded(1)

\* The channel text a category is inferred from: the title, a space, the
\* description.
ChannelText == title \o <<" ">> \o description

\* Two characters are the same letter, whatever their case.
SameLetter(a, b) == a = b \/ {a, b} = {"a", "A"}

\* A keyword occurs in the channel text whatever the case of its letters.
OccursAnyCase(keyword) ==
  \E i \in 1..Len(ChannelText) :
    /\ i + Len(keyword) - 1 <= Len(ChannelText)
    /\ \A k \in 1..Len(keyword) : SameLetter(ChannelText[i + k - 1], keyword[k])

\* A category of the table has a keyword in the channel text.
Hit(c) == \E keyword \in categories[c].keywords : OccursAnyCase(keyword)

\* C29: the category inferred for a text is the first category of the table
\* one of whose keywords occurs in the text in any case, "Other" when none
\* does; a further call on the same text gives the same category, and a call
\* changes nothing of the scraper.
C29_FirstCategoryInTableOrder ==
  [][ /\ inferred' # "-" =>
           IF \E c \in DOMAIN categories : Hit(c)
             THEN \E c \in DOMAIN categories :
                    /\ Hit(c)
                    /\ \A b \in 1..(c - 1) : ~Hit(b)
                    /\ inferred' = categories[c].name
             ELSE inferred' = "Other"
      /\ inferred # "-" => inferred' = inferred
      /\ UNCHANGED poolVars ]_vars

C29_Witness ==
  /\ inferred = "Beauty & Cosmetics"
  /\ title = <<"A">> /\ description = <<"h", "A", "i", "r">>

\* Both counts handed to calculate_engagement_rate are integers.
BothIntegers ==
  statistics.subscriberCount.kind = "int" /\ statistics.viewCount.kind = "int"

Within(rate, lo, hi) ==
  /\ lo.num * rate.den <= rate.num * lo.den
  /\ rate.num * hi.den <= hi.num * rate.den

\* C26: for every pair of non-negative integer counts the engagement metric
\* is within [0.1, 15.0].
C26_EngagementInRange ==
  (engagement_rate # NoRate /\ BothIntegers) =>
    Within(engagement_rate, Rat(1, 10), Rat(15, 1))

\* C27: the engagement metric is 5.0 when the subscriber count is zero and
\* when a count is malformed; otherwise it is viewCount / subscriberCount * 100
\* clamped to [0.1, 15.0].
C27_EngagementFallback ==
  engagement_rate # NoRate =>
    LET s == IntOf(statistics.subscriberCount)
        v == IntOf(statistics.viewCount)
        malformed == Bad \in {statistics.subscriberCount, statistics.viewCount}
    IN IF malformed \/ s = 0
         THEN engagement_rate.num = 5 * engagement_rate.den
         ELSE IF v * 1000 < s
           THEN engagement_rate.num * 10 = engagement_rate.den
           ELSE IF v * 100 > 15 * s
             THEN engagement_rate.num = 15 * engagement_rate.den
             ELSE engagement_rate.num * s = v * 100 * engagement_rate.den

\* C28: the category of a record is the category inferred from the title and
\* the description of its channel by the keyword table, "Other" when no
\* keyword matches.
C28_CategoryFromText ==
  influencer.kind = "record" =>
    influencer.category = categorize_channel(description, title)

\* The places of the listing that hold a checkpoint file whose count parses.
Checkpoints ==
  {i \in 1..Len(listing) :
     listing[i].tag = "checkpoint" /\ ~Raises_ValueError(listing[i].count)}

\* C30: the latest checkpoint is a checkpoint file with the numerically
\* largest count, also where the order of the names disagrees; files whose
\* count does not parse are ignored, and the result is none when there is no
\* checkpoint file.
C30_LatestIsNumericMax ==
  latest # Unset =>
    IF Checkpoints = {}
      THEN latest = None
      ELSE /\ latest.kind = "found"
           /\ \E i \in Checkpoints :
                /\ latest.file = listing[i]
                /\ latest.count = int(listing[i].count)
                /\ \A j \in Checkpoints : int(listing[j].count) <= latest.count

C30_Witness ==
  /\ latest.kind = "found" /\ latest.count = 1000
  /\ listing = << Name("checkpoint", <<"9">>),
                  Name("checkpoint", <<"1", "0", "0", "0">>),
                  Name("checkpoint", <<"x">>) >>

\* One sequence is the beginning of another.
IsPrefix(a, b) == Len(a) <= Len(b) /\ SubSeq(b, 1, Len(a)) = a

\* C31: every step of a run leaves the accumulated list as it was or with
\* records appended at its end, and every file of the output directory holds
\* a beginning of the accumulated list, so that an earlier snapshot is a
\* beginning of every later one.
C31_ProgressOnlyGrows ==
  [][ /\ IsPrefix(all_influencers, all_influencers')
      /\ \A f \in files' : IsPrefix(f.rows, all_influencers')
      /\ \A f \in files : \A g \in files' \ files : IsPrefix(f.rows, g.rows) ]_vars

C31_Witness ==
  /\ run_pc = "finally"
  /\ \E f \in Tagged(files, "emergency_save") : \E g \in Tagged(files, "final") :
       Len(f.rows) = 50 /\ Len(g.rows) = 99 /\ g.rows = all_influencers

\* The response to the request in flight arrives and is handled.
Handled == pc = "request" /\ pc' # "request"

\* C32: a 200 response whose payload embeds a quota error is never returned
\* to the caller; it is handled like a failed attempt: the cursor advances by
\* one, the backoff sleep is made and the call goes on to its next attempt.
C32_EmbeddedQuotaLikeFailure ==
  [][ (Handled /\ response'.status = 200 /\ QuotaRejection(response')) =>
        /\ result' # "data"
        /\ pc' = "loop" /\ retry_count' = retry_count + 1
        /\ current_key_index' = (current_key_index + 1) % N
        /\ slept' = Append(slept, 2 ^ (retry_count + 1)) ]_vars

\* The last response was neither a 200 nor a 403: another status, or the
\* transport raised.
OtherFailure(r) == r # NoResponse /\ r.status \notin {200, 403}

\* C33: on a status other than 200 and 403, and on a transport exception,
\* the call is not over: the cursor advances by one and the call sleeps 2
\* seconds after its first failed attempt, twice as long with each further
\* attempt; the attempt that follows uses the credential under the new
\* cursor, which in a pool of two or more credentials that are all available
\* is not the one that just failed.
C33_FailureBacksOffAndRotates ==
  [][ /\ (Handled /\ OtherFailure(response')) =>
           /\ pc' = "loop" /\ result' = "pending"
           /\ current_key_index' = (current_key_index + 1) % N
           /\ slept' = Append(slept, 2 ^ sent)
           /\ key_usage' = key_usage
      /\ (pc = "loop" /\ pc' = "request" /\ OtherFailure(response)
            /\ \A k \in Keys : ~Exceeded(k)) =>
           /\ current_key_index' = current_key_index
           /\ api_key' = api_keys[current_key_index + 1]
           /\ N >= 2 => api_key' # api_key ]_vars

C33_Witness ==
  /\ N = 2 /\ pc = "request" /\ slept = <<2, 4>>
  /\ api_key = 1 /\ current_key_index = 0
  /\ \A k \in Keys : ~Exceeded(k)

\* C34: the emergency-exit file the signal handler writes holds every record
\* created so far in the run: the accumulated list followed by the records
\* of the batch in progress that passed the subscriber filter.
C34_ExitSnapshotHasBatchInProgress ==
  [][ (signals' = signals + 1 /\ HandlerActs) =>
        \E f \in Tagged(files', "emergency_exit") :
          /\ f.rows = all_influencers \o influencers
          /\ Len(f.rows) = created ]_vars

\* A step of a batch that calls the executor, and the call sends a request.
SendsRequest ==
  /\ run_pc = "batch" /\ signals' = signals /\ quota_left' = quota_left
  /\ batch_pc = "search" \/ (batch_pc = "stats" /\ channels # <<>>)
  /\ ApiCall.sent > 0

\* C35: once the signal handler has written the emergency-exit file, at
\* whatever point of a batch the signal arrived, the run sends no further
\* API request and starts no further search.
C35_ExitNotIntercepted ==
  [][ Tagged(files, "emergency_exit") # {} =>
        /\ ~SendsRequest
        /\ total_searches' = total_searches ]_vars

\* The driver starts a search (lines 433-437).
StartsSearch == run_pc = "city_loop" /\ run_pc' = "batch"

\* C36: a search is started only while the accumulated count is below the
\* target, and it is the search of the next combination, so no combination
\* is searched twice; a batch adds at most max_per_search records, and the
\* accumulated count stays below the target plus max_per_search.
C36_AccumulatedBelowTargetPlusBatch ==
  [][ /\ StartsSearch =>
           /\ Len(all_influencers) < ShortTarget
           /\ total_searches' = total_searches + 1
      /\ total_searches' <= MaxSearches
      /\ Len(influencers') <= max_per_search
      /\ Len(all_influencers') <= Len(all_influencers) + max_per_search
      /\ Len(all_influencers') < ShortTarget + max_per_search ]_vars

C36_Witness ==
  /\ run_pc = "final" /\ total_searches = 1 /\ Len(all_influencers) = ShortTarget

\* C37: whatever the API sends, continuation tokens without end included,
\* every iteration of the pagination loop ends the loop or adds at least one
\* summary, so that a call makes at most max_results page requests (the
\* number of summaries still missing bounds the iterations that remain).
C37_EveryPageStopsOrAdds ==
  [][ /\ (sc_calls' = sc_calls + 1) =>
           \/ sc_pc' # "loop"
           \/ Len(sc_channels') > Len(sc_channels)
      /\ sc_calls' <= max_results'
      /\ (sc_pc' = "loop" /\ max_results' > 0) =>
           sc_calls' <= Len(sc_channels') /\ Len(sc_channels') <= max_results' ]_vars

C37_Witness ==
  /\ sc_pc = "returned" /\ max_results = 4 /\ sc_calls = 4
  /\ Len(sc_channels) = 4 /\ next_page_token

\* C38: an acquire that returns none, no cool-down having elapsed, leaves the
\* pool as it found it: the cursor is back where the scan started and no
\* flag, counter or timestamp has changed; an acquire that returns a
\* credential changes nothing of a credential whose flag was clear.
C38_AcquireLeavesPool ==
  [][ AcquireStep =>
        /\ (api_key' = 0 /\ \A k \in Keys : StillExceeded(k)) =>
             /\ current_key_index' = current_key_index
             /\ key_usage' = key_usage
             /\ api_keys' = api_keys
        /\ api_key' = 0 => \A k \in Keys : StillExceeded(k)
        /\ api_key' # 0 =>
             \A k \in Keys : ~Exceeded(k) => key_usage'[k] = key_usage[k] ]_vars

C38_Witness ==
  /\ N = 2 /\ pc = "done" /\ result = "exhausted" /\ api_key = 0
  /\ current_key_index = 1 /\ sent = 2 /\ now = 1
  /\ \A k \in Keys : StillExceeded(k) /\ key_usage[k].last_reset = 0

\* The run function has returned or the process has exited.
Ended(at) == at \in {"returned", "exited"}

\* C39: however a run ends (completion, an exception the driver caught, an
\* interrupt handled with records accumulated), the session is closed by
\* then and the globals are reset: no scraper instance, an empty accumulated
\* list, not running; a signal that arrives later writes nothing.
C39_EndClosesAndResets ==
  [][ /\ Ended(run_pc') =>
           /\ session_closed'
           /\ ~scraper_instance' /\ current_influencers' = <<>> /\ ~is_running'
      /\ Ended(run_pc) => (files' = files /\ run_pc' = run_pc) ]_vars

C39_Witness ==
  /\ run_pc = "returned" /\ returned = 0 /\ signals = MaxSignals
  /\ Len(all_influencers) = 50 /\ session_closed
  /\ Tagged(files, "emergency_exit") = {}

TypeOK ==
  /\ current_key_index \in 0..(N - 1)
  /\ pc \in {"idle", "loop", "request", "done"}
  /\ retry_count \in 0..max_retries
====
